---- MODULE Spec2Model ----
(***************************************************************************)
(* Model of the e-resource backend (src/app.py): the relational store      *)
(* (users, admins, login_logs, resources, ratings, notes) and the request  *)
(* handlers that read and write it.                                        *)
(*                                                                         *)
(* Strings are sequences of one-character strings, so that strip() and     *)
(* lower() are computed rather than assumed.  An average is kept in        *)
(* hundredths (ROUND(AVG(rating),2) * 100).                                *)
(***************************************************************************)
EXTENDS Integers, Sequences, FiniteSets, TLC

VARIABLES
    resources,   \* rows of table resources
    resSeq,      \* AUTOINCREMENT sequence of resources (last id given out)
    ratings,     \* rows of table ratings
    notes,       \* rows of table notes
    noteSeq,     \* AUTOINCREMENT sequence of notes
    resp,        \* the response of the last request handled
    tables,      \* the tables init_tables has created
    hasLastSeen, \* users has the column last_seen
    users,       \* rows of table users
    userSeq,     \* AUTOINCREMENT sequence of users
    admins,      \* rows of table admins (committed)
    adminSeq,    \* AUTOINCREMENT sequence of admins
    logs,        \* rows of table login_logs
    logSeq,      \* AUTOINCREMENT sequence of login_logs
    ratePc,      \* per worker: where its api_rate call stands
    rateRid,     \* per worker: the resource_id of its api_rate call
    rateSnap,    \* per worker: average and votes right after its own upsert
    rateResp,    \* per worker: the response of its api_rate call
    bootPc,      \* per process: where its init_tables call stands
    bootRow,     \* per process: what its SELECT 1 FROM admins returned
    wlock        \* the process holding the store's write lock, or 0

engVars == <<resources, resSeq, ratings, notes, noteSeq>>
idVars == <<tables, hasLastSeen, users, userSeq, admins, adminSeq, logs, logSeq>>
rateVars == <<ratePc, rateRid, rateSnap, rateResp>>
bootVars == <<bootPc, bootRow, wlock>>
vars == <<engVars, resp, idVars, rateVars, bootVars>>

----------------------------------------------------------------------------
(* Bounds *)

MaxRid == 2          \* resources ever created
MaxNotes == 2        \* notes ever created
MaxUid == 3          \* users rows ever inserted
MaxLogs == 1         \* login_logs rows ever inserted
NumWorkers == 2      \* request workers running api_rate concurrently
NumBoots == 3        \* processes running init_tables concurrently

(* Program constants *)

MinRating == 1
MaxRating == 5
TopLimit == 20
ResourceTypes == { <<"p", "d", "f">>, <<"e", "p", "u", "b">>, <<"v", "i", "d", "e", "o">> }
ListLimit == 300
UploadsRoute == <<"/", "u", "p", "l", "o", "a", "d", "s", "/">>      \* "/uploads/"
UploadsRel == <<"u", "p", "l", "o", "a", "d", "s", "/">>             \* "uploads/"
Origin == <<"h", "t", "t", "p", ":", "/", "/", "h">>                 \* the serving origin
Comma == <<",">>

----------------------------------------------------------------------------
(* Strings *)

IsSpace(c) == c = " "

LowerChar(c) ==
    CASE c = "A" -> "a"
      [] c = "B" -> "b"
      [] c = "C" -> "c"
      [] c = "D" -> "d"
      [] c = "F" -> "f"
      [] c = "P" -> "p"
      [] OTHER -> c

Lower(s) == [i \in 1..Len(s) |-> LowerChar(s[i])]

RECURSIVE LStrip(_)
LStrip(s) ==
    IF s # <<>> /\ IsSpace(Head(s)) THEN LStrip(Tail(s)) ELSE s

RECURSIVE RStrip(_)
RStrip(s) ==
    IF s # <<>> /\ IsSpace(s[Len(s)]) THEN RStrip(SubSeq(s, 1, Len(s) - 1)) ELSE s

Strip(s) == RStrip(LStrip(s))

UpperChar(c) ==
    CASE c = "p" -> "P"
      [] c = "d" -> "D"
      [] c = "f" -> "F"
      [] c = "e" -> "E"
      [] c = "u" -> "U"
      [] c = "b" -> "B"
      [] c = "v" -> "V"
      [] c = "i" -> "I"
      [] c = "o" -> "O"
      [] OTHER -> c

Upper(s) == [i \in 1..Len(s) |-> UpperChar(s[i])]

(* s.startswith(p) *)
StartsWith(s, p) == Len(s) >= Len(p) /\ SubSeq(s, 1, Len(p)) = p

(* s.split(sep): the pieces of s between the occurrences of sep, left to right *)
RECURSIVE Split(_, _)
Split(s, sep) ==
    LET hits == { i \in 1..(Len(s) - Len(sep) + 1) : SubSeq(s, i, i + Len(sep) - 1) = sep }
    IN IF hits = {} THEN << s >>
       ELSE LET i == CHOOSE h \in hits : \A k \in hits : h <= k
            IN << SubSeq(s, 1, i - 1) >> \o Split(SubSeq(s, i + Len(sep), Len(s)), sep)

(* sep.join(parts) *)
RECURSIVE Join(_, _)
Join(parts, sep) ==
    IF parts = <<>> THEN <<>>
    ELSE IF Len(parts) = 1 THEN parts[1]
    ELSE parts[1] \o sep \o Join(Tail(parts), sep)

(* [t.strip() for t in parts if t.strip()] *)
RECURSIVE StripNonEmpty(_)
StripNonEmpty(parts) ==
    IF parts = <<>> THEN <<>>
    ELSE IF Strip(Head(parts)) # <<>>
         THEN << Strip(Head(parts)) >> \o StripNonEmpty(Tail(parts))
         ELSE StripNonEmpty(Tail(parts))

(* Python truthiness of a str / an int *)
Truthy(s) == s # <<>>
TruthyInt(n) == n # 0

----------------------------------------------------------------------------
(* Request inputs *)

EmailInputs == { <<>>, <<" ">>, <<"a">>, <<" ", "B">>, <<"A", " ">> }
RidInputs == {-1, 0, 1, 2}
RatingInputs == {0, 2, 4, 6}
TitleInputs == { <<" ">>, <<"T", " ">> }
TypeInputs == { <<"P", "D", "F">>, <<"e", "x", "e">> }
CourseInputs == { <<>>, <<" ", "C">> }
TextInputs == { <<" ">>, <<"n", " ">> }
NoteEmailInputs == { <<>>, <<"a">>, <<"B", " ">> }
NoteRidInputs == {0, 1}
NoteIdInputs == {1, 2, 3}
NoTags == [kind |-> "str", val |-> <<>>]
TagsInputs ==
    { [kind |-> "str", val |-> <<"a", ",", " ", "b", " ", ",", ",", "c">>],
      NoTags,
      [kind |-> "list", val |-> << <<" ", "a">>, <<>>, <<"b", " ">> >>],
      [kind |-> "list", val |-> << <<"a", " ", ",", " ", "b">> >>],
      [kind |-> "list", val |-> <<>>] }
LinkInputs ==
    { <<>>,
      UploadsRoute \o <<"x">>,
      <<" ">> \o UploadsRel \o <<"x">>,
      Origin \o UploadsRoute \o <<"x">>,
      <<"h", "t", "t", "p", ":", "/", "/", "e">> }

----------------------------------------------------------------------------
(* SQL helpers *)

RECURSIVE SumRatings(_)
SumRatings(rows) ==
    IF rows = {} THEN 0
    ELSE LET r == CHOOSE x \in rows : TRUE
         IN r.rating + SumRatings(rows \ {r})

(* ROUND(AVG(rating),2), in hundredths; NULL (0 rows) is rendered 0 by "or 0" *)
RoundAvg(rows) ==
    IF rows = {} THEN 0
    ELSE (200 * SumRatings(rows) + Cardinality(rows)) \div (2 * Cardinality(rows))

(* SELECT ROUND(AVG(rating),2) AS avg, COUNT AS votes FROM ratings
   WHERE resource_id=? *)
AvgVotes(tbl, rid) ==
    LET rows == {rt \in tbl : rt.resource_id = rid}
    IN [avg |-> RoundAvg(rows), votes |-> Cardinality(rows)]

(* the rating the pair's row holds, 0 when it has none (kept with the response
   as a record of what the call replaced) *)
PriorRating(tbl, rid, email) ==
    IF \E rt \in tbl : rt.resource_id = rid /\ rt.email = email
    THEN (CHOOSE rt \in tbl : rt.resource_id = rid /\ rt.email = email).rating
    ELSE 0

(* a plain INSERT, without the conflict clause *)
UpsertAppend(tbl, rid, email, rating) ==
    tbl \cup { [resource_id |-> rid, email |-> email, rating |-> rating] }

(* INSERT ... ON CONFLICT(resource_id,email) DO UPDATE SET rating=excluded.rating *)
Upsert(tbl, rid, email, rating) ==
    IF \E rt \in tbl : rt.resource_id = rid /\ rt.email = email
    THEN { IF rt.resource_id = rid /\ rt.email = email
           THEN [rt EXCEPT !.rating = rating] ELSE rt : rt \in tbl }
    ELSE tbl \cup { [resource_id |-> rid, email |-> email, rating |-> rating] }

(* The rows of the summary query before ORDER BY:
   resources r JOIN ratings rt ON rt.resource_id = r.id GROUP BY r.id
   HAVING votes >= 1 *)
SummaryRows ==
    LET joined == { <<r, rt>> \in resources \X ratings : rt.resource_id = r.id }
        groups == { j[1].id : j \in joined }
        row(id) == LET g == { j[2] : j \in { k \in joined : k[1].id = id } }
                   IN [id |-> id, avg_rating |-> RoundAvg(g), votes |-> Cardinality(g)]
    IN { x \in { row(id) : id \in groups } : x.votes >= 1 }

(* ORDER BY votes DESC, avg_rating DESC *)
SummaryOrderVotesFirst(x, y) ==
    \/ x.votes > y.votes
    \/ x.votes = y.votes /\ x.avg_rating >= y.avg_rating

(* ORDER BY avg_rating DESC, votes DESC: x may come before y *)
SummaryOrder(x, y) ==
    \/ x.avg_rating > y.avg_rating
    \/ x.avg_rating = y.avg_rating /\ x.votes >= y.votes

(* every sequence over all of rows that respects the ORDER BY; rows that tie
   come in any order *)
RECURSIVE OrderedSeqs(_)
OrderedSeqs(rows) ==
    IF rows = {} THEN { <<>> }
    ELSE UNION { { <<x>> \o s : s \in OrderedSeqs(rows \ {x}) }
                 : x \in { m \in rows : \A y \in rows : SummaryOrder(m, y) } }

(* LIMIT n *)
Limit(s, n) == SubSeq(s, 1, IF Len(s) < n THEN Len(s) ELSE n)

Workers == 1..NumWorkers
Boots == 1..NumBoots
NoAvg == [avg |-> 0, votes |-> 0]

----------------------------------------------------------------------------
Init ==
    /\ resources = {}
    /\ resSeq = 0
    /\ ratings = {}
    /\ notes = {}
    /\ noteSeq = 0
    /\ resp = [op |-> "none"]
    /\ tables = {}
    /\ hasLastSeen = FALSE
    /\ users = {}
    /\ userSeq = 0
    /\ admins = {}
    /\ adminSeq = 0
    /\ logs = {}
    /\ logSeq = 0
    /\ ratePc = [w \in Workers |-> "idle"]
    /\ rateRid = [w \in Workers |-> 0]
    /\ rateSnap = [w \in Workers |-> NoAvg]
    /\ rateResp = [w \in Workers |-> NoAvg]
    /\ bootPc = [p \in Boots |-> "users"]
    /\ bootRow = [p \in Boots |-> FALSE]
    /\ wlock = 0

(* POST /api/rate *)
api_rate(ridIn, emailIn, ratingIn) ==
    /\ UNCHANGED <<idVars, rateVars, bootVars>>
    /\ LET rid == ridIn
           email == Lower(Strip(emailIn))
           rating == ratingIn
       IN IF ~(TruthyInt(rid) /\ Truthy(email) /\ MinRating <= rating /\ rating <= MaxRating)
          THEN /\ resp' = [op |-> "rate", status |-> 400]
               /\ UNCHANGED engVars
          ELSE /\ ratings' = Upsert(ratings, rid, email, rating)
               /\ resp' = [op |-> "rate", status |-> 200, rid |-> rid, email |-> email,
                           rating |-> rating, prior |-> PriorRating(ratings, rid, email),
                           avg_rating |-> AvgVotes(ratings', rid).avg,
                           votes |-> AvgVotes(ratings', rid).votes]
               /\ UNCHANGED <<resources, resSeq, notes, noteSeq>>

(* GET /api/ratings/summary *)
api_ratings_summary ==
    /\ \E s \in OrderedSeqs(SummaryRows) :
          resp' = [op |-> "topRated", status |-> 200, rows |-> Limit(s, TopLimit)]
    /\ UNCHANGED engVars
    /\ UNCHANGED <<idVars, rateVars, bootVars>>

(* POST /api/notes *)
api_add_note(ridIn, emailIn, textIn) ==
    /\ UNCHANGED <<idVars, rateVars, bootVars>>
    /\ LET rid == ridIn
           email == Lower(Strip(emailIn))
           text == Strip(textIn)
       IN IF ~(TruthyInt(rid) /\ Truthy(email) /\ Truthy(text))
          THEN /\ resp' = [op |-> "addNote", status |-> 400]
               /\ UNCHANGED engVars
          ELSE /\ noteSeq < MaxNotes
               /\ noteSeq' = noteSeq + 1
               /\ notes' = notes \cup { [id |-> noteSeq + 1, resource_id |-> rid,
                                         email |-> email, text |-> text] }
               /\ resp' = [op |-> "addNote", status |-> 200, id |-> noteSeq + 1]
               /\ UNCHANGED <<resources, resSeq, ratings>>

(* DELETE FROM notes WHERE id=? : the owner filter left out *)
api_delete_note_any(note_id, emailIn) ==
    /\ UNCHANGED <<idVars, rateVars, bootVars>>
    /\ LET email == Lower(Strip(emailIn))
       IN IF ~Truthy(email)
          THEN /\ resp' = [op |-> "deleteNote", status |-> 400]
               /\ UNCHANGED engVars
          ELSE LET hit == { n \in notes : n.id = note_id }
               IN /\ notes' = notes \ hit
                  /\ resp' = [op |-> "deleteNote", status |-> 200, note_id |-> note_id,
                              email |-> email, ok |-> (Cardinality(hit) # 0)]
                  /\ UNCHANGED <<resources, resSeq, ratings, noteSeq>>

(* DELETE /api/notes/<note_id>?email= *)
api_delete_note(note_id, emailIn) ==
    /\ UNCHANGED <<idVars, rateVars, bootVars>>
    /\ LET email == Lower(Strip(emailIn))
       IN IF ~Truthy(email)
          THEN /\ resp' = [op |-> "deleteNote", status |-> 400]
               /\ UNCHANGED engVars
          ELSE LET hit == { n \in notes : n.id = note_id /\ n.email = email }
               IN /\ notes' = notes \ hit
                  /\ resp' = [op |-> "deleteNote", status |-> 200, note_id |-> note_id,
                              email |-> email, ok |-> (Cardinality(hit) # 0)]
                  /\ UNCHANGED <<resources, resSeq, ratings, noteSeq>>

(* tags can be a list or a comma string; an empty list is taken as "" *)
NormalizeTags(tagsIn) ==
    IF tagsIn.kind = "list" /\ tagsIn.val # <<>>
    THEN Join(StripNonEmpty(tagsIn.val), Comma)
    ELSE Join(StripNonEmpty(Split(tagsIn.val, Comma)), Comma)

(* item["tags"] of list_resources *)
ExplodeTags(tags) == StripNonEmpty(Split(tags, Comma))

(* url_for("serve_upload", fname=fname, _external=True), for file names made
   of characters that need no quoting *)
UrlForUpload(fname) == Origin \o UploadsRoute \o fname

(* normalize relative /uploads paths to an absolute URL on this backend *)
CanonicalLink(link) ==
    IF Truthy(link) /\ (StartsWith(link, UploadsRoute) \/ StartsWith(link, UploadsRel))
    THEN LET parts == Split(link, UploadsRoute)
         IN UrlForUpload(parts[Len(parts)])
    ELSE link

(* POST /api/admin/resources *)
admin_add_resource(titleIn, typeIn, courseIn, tagsIn, linkIn) ==
    /\ UNCHANGED <<idVars, rateVars, bootVars>>
    /\ LET title == Strip(titleIn)
           rtype == Lower(Strip(typeIn))
           course == Strip(courseIn)
           tags == NormalizeTags(tagsIn)
           link == CanonicalLink(Strip(linkIn))
       IN IF ~Truthy(title) \/ rtype \notin ResourceTypes \/ ~Truthy(course)
          THEN /\ resp' = [op |-> "addResource", status |-> 400]
               /\ UNCHANGED engVars
          ELSE /\ resSeq' = resSeq + 1
               /\ resources' = resources \cup { [id |-> resSeq + 1, title |-> title,
                                                 type |-> rtype, course |-> course,
                                                 tags |-> tags, link |-> link] }
               /\ resp' = [op |-> "addResource", status |-> 200, id |-> resSeq + 1,
                           tagsIn |-> tagsIn, linkIn |-> linkIn]
               /\ UNCHANGED <<ratings, notes, noteSeq>>

(* the rows of a table by id, highest first *)
RECURSIVE ByIdDesc(_)
ByIdDesc(rows) ==
    IF rows = {} THEN <<>>
    ELSE LET top == CHOOSE r \in rows : \A o \in rows : o.id <= r.id
         IN << top >> \o ByIdDesc(rows \ {top})

(* GET /api/resources?course= *)
list_resources(courseIn) ==
    /\ UNCHANGED <<idVars, rateVars, bootVars, engVars>>
    /\ LET course == Strip(courseIn)
           hit == IF Truthy(course) THEN { r \in resources : r.course = course }
                  ELSE resources
           rows == Limit(ByIdDesc(hit), ListLimit)
       IN resp' = [op |-> "listResources", status |-> 200,
                   resources |-> [i \in 1..Len(rows) |->
                                    [rows[i] EXCEPT !.type = Upper(rows[i].type),
                                                    !.tags = ExplodeTags(rows[i].tags)]]]

(* a delete that cascades to the ratings and notes of the resource *)
admin_delete_resource_cascade(rid) ==
    /\ resources' = { r \in resources : r.id # rid }
    /\ ratings' = { rt \in ratings : rt.resource_id # rid }
    /\ notes' = { n \in notes : n.resource_id # rid }
    /\ resp' = [op |-> "deleteResource", status |-> 200, rid |-> rid, ok |-> TRUE]
    /\ UNCHANGED <<resSeq, noteSeq>>
    /\ UNCHANGED <<idVars, rateVars, bootVars>>

(* DELETE /api/admin/resources/<rid> *)
admin_delete_resource(rid) ==
    /\ resources' = { r \in resources : r.id # rid }
    /\ resp' = [op |-> "deleteResource", status |-> 200, rid |-> rid, ok |-> TRUE]
    /\ UNCHANGED <<resSeq, ratings, notes, noteSeq>>
    /\ UNCHANGED <<idVars, rateVars, bootVars>>

----------------------------------------------------------------------------
(* Identity store *)

SeedAdmin(id) ==
    [admin_id |-> id, name |-> "System Admin", email |-> "admin@kkhsou.ac.in",
     role |-> "Admin"]

(* SELECT 1 FROM admins LIMIT 1 *)
AdminRow(tbl) == tbl # {}

(* INSERT OR IGNORE: the UNIQUE(email) conflict keeps the old row *)
InsertOrIgnore(tbl, row) ==
    IF \E u \in tbl : u.email = row.email THEN tbl ELSE tbl \cup { row }

(* INSERT OR REPLACE INTO users: the UNIQUE(email) conflict deletes the old row *)
InsertOrReplace(tbl, row) ==
    { u \in tbl : u.email # row.email } \cup { row }

(* init_tables() seeding on every run, the new row replacing the old *)
init_tables_reseed ==
    /\ tables' = tables \cup {"users", "admins", "login_logs"}
    /\ admins' = { SeedAdmin(adminSeq + 1) }
    /\ adminSeq' = adminSeq + 1
    /\ resp' = [op |-> "init_tables", seeded |-> (admins = {})]
    /\ UNCHANGED <<hasLastSeen, users, userSeq, logs, logSeq>>
    /\ UNCHANGED <<engVars, rateVars, bootVars>>

(* init_tables(), run alone *)
init_tables ==
    /\ tables' = tables \cup {"users", "admins", "login_logs"}
    /\ IF ~AdminRow(admins)
       THEN /\ admins' = admins \cup { SeedAdmin(adminSeq + 1) }
            /\ adminSeq' = adminSeq + 1
            /\ resp' = [op |-> "init_tables", seeded |-> TRUE]
       ELSE /\ UNCHANGED <<admins, adminSeq>>
            /\ resp' = [op |-> "init_tables", seeded |-> FALSE]
    /\ UNCHANGED <<hasLastSeen, users, userSeq, logs, logSeq>>
    /\ UNCHANGED <<engVars, rateVars, bootVars>>

(* ensure_user_last_seen_column() *)
ensure_user_last_seen_column ==
    /\ "users" \in tables
    /\ hasLastSeen' = TRUE
    /\ resp' = [op |-> "ensure_last_seen"]
    /\ UNCHANGED <<tables, users, userSeq, admins, adminSeq, logs, logSeq>>
    /\ UNCHANGED <<engVars, rateVars, bootVars>>

(* POST /api/link-enrollment *)
link_enrollment(emailIn, nameIn, enrIn, courseIn, semIn, mobileIn) ==
    /\ UNCHANGED <<engVars, rateVars, bootVars>>
    /\ UNCHANGED <<tables, hasLastSeen, admins, adminSeq, logs, logSeq>>
    /\ IF ~(Truthy(emailIn) /\ Truthy(nameIn) /\ Truthy(enrIn) /\ Truthy(courseIn)
            /\ Truthy(semIn))
       THEN /\ resp' = [op |-> "linkEnrollment", status |-> 400]
            /\ UNCHANGED <<users, userSeq>>
       ELSE IF "users" \notin tables
       THEN /\ resp' = [op |-> "linkEnrollment", status |-> 500]
            /\ UNCHANGED <<users, userSeq>>
       ELSE LET row == [user_id |-> userSeq + 1,
                        name |-> Strip(nameIn),
                        email |-> Lower(Strip(emailIn)),
                        enrollment_no |-> Strip(enrIn),
                        course |-> Strip(courseIn),
                        semester |-> Strip(semIn),
                        mobile |-> Strip(mobileIn),
                        role |-> "Student",
                        last_seen |-> "NULL"]
                old == { u \in users : u.email = row.email }
            IN /\ userSeq < MaxUid
               /\ users' = InsertOrReplace(users, row)
               /\ userSeq' = userSeq + 1
               /\ resp' = [op |-> "linkEnrollment", status |-> 200,
                           email |-> emailIn, name |-> nameIn, enrollment_no |-> enrIn,
                           course |-> courseIn, semester |-> semIn, mobile |-> mobileIn,
                           prior |-> old]

(* GET /api/user?email= *)
get_user_by_email(emailIn) ==
    /\ UNCHANGED <<engVars, rateVars, bootVars>>
    /\ UNCHANGED <<tables, hasLastSeen, userSeq, admins, adminSeq, logs, logSeq>>
    /\ LET email == Lower(Strip(emailIn))
       IN IF ~Truthy(email)
          THEN /\ resp' = [op |-> "getUser", status |-> 400]
               /\ UNCHANGED users
          ELSE IF "users" \notin tables \/ ~hasLastSeen
          THEN /\ resp' = [op |-> "getUser", status |-> 500]
               /\ UNCHANGED users
          ELSE /\ users' = { IF Lower(u.email) = email
                             THEN [u EXCEPT !.last_seen = "now"] ELSE u : u \in users }
               /\ IF \E u \in users' : Lower(u.email) = email
                  THEN resp' = [op |-> "getUser", status |-> 200,
                                row |-> CHOOSE u \in users' : Lower(u.email) = email]
                  ELSE resp' = [op |-> "getUser", status |-> 404]

(* POST /api/login-email *)
login_email(emailIn) ==
    /\ UNCHANGED <<engVars, rateVars, bootVars>>
    /\ UNCHANGED <<tables, hasLastSeen, users, userSeq, admins, adminSeq>>
    /\ LET email == Lower(Strip(emailIn))
           found == { u \in users : Lower(u.email) = email }
       IN IF ~Truthy(email)
          THEN /\ resp' = [op |-> "loginEmail", status |-> 400]
               /\ UNCHANGED <<logs, logSeq>>
          ELSE IF ~({"users", "login_logs"} \subseteq tables)
          THEN /\ resp' = [op |-> "loginEmail", status |-> 500]
               /\ UNCHANGED <<logs, logSeq>>
          ELSE /\ logSeq < MaxLogs
               /\ logSeq' = logSeq + 1
               /\ IF found # {}
                  THEN LET u == CHOOSE x \in found : TRUE
                       IN /\ logs' = logs \cup { [id |-> logSeq + 1, email |-> email,
                                                  name |-> u.name] }
                          /\ resp' = [op |-> "loginEmail", status |-> 200,
                                      kind |-> "existing", name |-> u.name]
                  ELSE /\ logs' = logs \cup { [id |-> logSeq + 1, email |-> email,
                                               name |-> "Unknown"] }
                       /\ resp' = [op |-> "loginEmail", status |-> 200, kind |-> "new"]

----------------------------------------------------------------------------
(* api_rate under concurrent workers: the upsert with its commit is one      *)
(* write transaction, the SELECT that follows is a statement of its own.     *)

rate_write(w, ridIn, emailIn, ratingIn) ==
    /\ ratePc[w] = "idle"
    /\ LET rid == ridIn
           email == Lower(Strip(emailIn))
           rating == ratingIn
       IN /\ TruthyInt(rid) /\ Truthy(email) /\ MinRating <= rating /\ rating <= MaxRating
          /\ ratings' = Upsert(ratings, rid, email, rating)
          /\ rateRid' = [rateRid EXCEPT ![w] = rid]
          /\ rateSnap' = [rateSnap EXCEPT ![w] = AvgVotes(ratings', rid)]
          /\ ratePc' = [ratePc EXCEPT ![w] = "read"]
    /\ UNCHANGED <<resources, resSeq, notes, noteSeq, resp, rateResp>>
    /\ UNCHANGED <<idVars, bootVars>>

rate_read(w) ==
    /\ ratePc[w] = "read"
    /\ rateResp' = [rateResp EXCEPT ![w] = AvgVotes(ratings, rateRid[w])]
    /\ ratePc' = [ratePc EXCEPT ![w] = "done"]
    /\ UNCHANGED <<engVars, resp, rateRid, rateSnap>>
    /\ UNCHANGED <<idVars, bootVars>>

rate_return(w) ==
    /\ ratePc[w] = "done"
    /\ ratePc' = [ratePc EXCEPT ![w] = "idle"]
    /\ UNCHANGED <<engVars, resp, rateRid, rateSnap, rateResp>>
    /\ UNCHANGED <<idVars, bootVars>>

----------------------------------------------------------------------------
(* init_tables under concurrent process starts, one statement per step.      *)
(* The INSERT opens a write transaction that ends at db.commit(); a second   *)
(* writer waits for the lock.                                                *)

boot_create(p) ==
    /\ bootPc[p] \in {"users", "admins", "login_logs"}
    /\ tables' = tables \cup {bootPc[p]}
    /\ bootPc' = [bootPc EXCEPT ![p] =
                    CASE bootPc[p] = "users" -> "admins"
                      [] bootPc[p] = "admins" -> "login_logs"
                      [] OTHER -> "select"]
    /\ UNCHANGED <<hasLastSeen, users, userSeq, admins, adminSeq, logs, logSeq>>
    /\ UNCHANGED <<bootRow, wlock, engVars, resp, rateVars>>

boot_select(p) ==
    /\ bootPc[p] = "select"
    /\ bootRow' = [bootRow EXCEPT ![p] = AdminRow(admins)]
    /\ bootPc' = [bootPc EXCEPT ![p] = IF AdminRow(admins) THEN "commit" ELSE "insert"]
    /\ UNCHANGED <<idVars, wlock, engVars, resp, rateVars>>

boot_insert(p) ==
    /\ bootPc[p] = "insert"
    /\ wlock = 0
    /\ IF \E a \in admins : a.email = SeedAdmin(0).email
       THEN /\ bootPc' = [bootPc EXCEPT ![p] = "error"]      \* sqlite3.IntegrityError
            /\ UNCHANGED wlock
       ELSE /\ bootPc' = [bootPc EXCEPT ![p] = "commit"]
            /\ wlock' = p
    /\ UNCHANGED <<idVars, bootRow, engVars, resp, rateVars>>

boot_commit(p) ==
    /\ bootPc[p] = "commit"
    /\ IF wlock = p
       THEN /\ admins' = admins \cup { SeedAdmin(adminSeq + 1) }
            /\ adminSeq' = adminSeq + 1
            /\ wlock' = 0
       ELSE UNCHANGED <<admins, adminSeq, wlock>>
    /\ bootPc' = [bootPc EXCEPT ![p] = "done"]
    /\ UNCHANGED <<tables, hasLastSeen, users, userSeq, logs, logSeq>>
    /\ UNCHANGED <<bootRow, engVars, resp, rateVars>>

----------------------------------------------------------------------------
(* The engagement store under sequential requests *)

RateStep == \E rid \in RidInputs, e \in EmailInputs, r \in RatingInputs : api_rate(rid, e, r)
SummaryStep == api_ratings_summary
AddNoteStep ==
    \E rid \in NoteRidInputs, e \in NoteEmailInputs, t \in TextInputs : api_add_note(rid, e, t)
DeleteNoteStep == \E id \in NoteIdInputs, e \in NoteEmailInputs : api_delete_note(id, e)
AddResourceStep ==
    /\ resSeq < MaxRid
    /\ \E t \in TitleInputs, ty \in TypeInputs, c \in CourseInputs :
          admin_add_resource(t, ty, c, NoTags, <<>>)
DeleteResourceStep == \E rid \in 1..(MaxRid + 1) : admin_delete_resource(rid)

Next ==
    \/ RateStep
    \/ AddResourceStep
    \/ DeleteResourceStep

Spec == Init /\ [][Next]_vars

(* The leaderboard over a catalogue that outgrows its LIMIT: the store starts
   with TopBase rated resources whose (average, votes) all differ *)
TopBase == TopLimit

TopSeedRatings(i) ==
    LET row(e, r) == [resource_id |-> i, email |-> <<e>>, rating |-> r]
    IN IF i <= 5 THEN { row("c", i) }
       ELSE IF i <= 14 THEN { row("c", (i - 3) \div 2), row("d", (i - 4) \div 2) }
       ELSE LET r == ((i - 15) % 5) + 1
            IN { row("c", r), row("d", r), row("e", r + ((i - 15) \div 5)) }

InitTop ==
    /\ resources = { [id |-> i, title |-> <<"T">>, type |-> <<"p", "d", "f">>,
                      course |-> <<"C">>, tags |-> <<>>, link |-> <<>>] : i \in 1..TopBase }
    /\ resSeq = TopBase
    /\ ratings = UNION { TopSeedRatings(i) : i \in 1..TopBase }
    /\ notes = {}
    /\ noteSeq = 0
    /\ resp = [op |-> "none"]
    /\ tables = {}
    /\ hasLastSeen = FALSE
    /\ users = {}
    /\ userSeq = 0
    /\ admins = {}
    /\ adminSeq = 0
    /\ logs = {}
    /\ logSeq = 0
    /\ ratePc = [w \in Workers |-> "idle"]
    /\ rateRid = [w \in Workers |-> 0]
    /\ rateSnap = [w \in Workers |-> NoAvg]
    /\ rateResp = [w \in Workers |-> NoAvg]
    /\ bootPc = [p \in Boots |-> "users"]
    /\ bootRow = [p \in Boots |-> FALSE]
    /\ wlock = 0

AddResourceTopStep ==
    /\ resSeq < TopBase + MaxRid
    /\ \E t \in TitleInputs, ty \in TypeInputs, c \in CourseInputs :
          admin_add_resource(t, ty, c, NoTags, <<>>)
DeleteResourceTopStep == \E rid \in TopBase..(TopBase + MaxRid) : admin_delete_resource(rid)
RateTopStep ==
    \E rid \in (TopBase + 1)..(TopBase + 2), e \in NoteEmailInputs, r \in {2, 4} :
       api_rate(rid, e, r)

NextTop ==
    \/ RateTopStep
    \/ SummaryStep
    \/ AddResourceTopStep
    \/ DeleteResourceTopStep

SpecTop == InitTop /\ [][NextTop]_vars

(* Notes, with resources and ratings beside them *)
RateOneStep == \E e \in NoteEmailInputs : api_rate(1, e, 4)

NextNotes ==
    \/ AddNoteStep
    \/ DeleteNoteStep
    \/ AddResourceStep
    \/ DeleteResourceStep
    \/ RateOneStep

SpecNotes == Init /\ [][NextNotes]_vars

(* The identity store under sequential requests and restarts *)
NameInputs == { <<>>, <<" ">>, <<"n">>, <<"m", " ">> }
EnrInputs == { <<"1">> }
SemInputs == { <<" ", "2">> }
MobileInputs == { <<>>, <<"9", " ">> }
LinkCourseInputs == { <<"C">> }
UserEmailInputs == { <<>>, <<" ">>, <<"a">>, <<"A", " ">> }

InitTablesStep == init_tables
EnsureColumnStep == ensure_user_last_seen_column
LinkStep ==
    \E e \in UserEmailInputs, n \in NameInputs, en \in EnrInputs, c \in LinkCourseInputs,
       sm \in SemInputs, m \in MobileInputs : link_enrollment(e, n, en, c, sm, m)
GetUserStep == \E e \in UserEmailInputs : get_user_by_email(e)
LoginStep == \E e \in UserEmailInputs : login_email(e)

RateSoleStep == api_rate(1, <<"a">>, 4)

NextIdentity ==
    \/ InitTablesStep
    \/ RateSoleStep
    \/ EnsureColumnStep
    \/ LinkStep
    \/ GetUserStep
    \/ LoginStep

SpecIdentity == Init /\ [][NextIdentity]_vars

(* Concurrent api_rate calls on one resource *)
RateWriteStep ==
    \E w \in Workers, e \in NoteEmailInputs, r \in {2, 4} : rate_write(w, 1, e, r)
RateReadStep == \E w \in Workers : rate_read(w)
RateReturnStep == \E w \in Workers : rate_return(w)

NextRateConc ==
    \/ RateWriteStep
    \/ RateReadStep
    \/ RateReturnStep

SpecRateConc == Init /\ [][NextRateConc]_vars

(* Concurrent process starts against the empty store *)
BootCreateStep == \E p \in Boots : boot_create(p)
BootSelectStep == \E p \in Boots : boot_select(p)
BootInsertStep == \E p \in Boots : boot_insert(p)
BootCommitStep == \E p \in Boots : boot_commit(p)

NextBoot ==
    \/ BootCreateStep
    \/ BootSelectStep
    \/ BootInsertStep
    \/ BootCommitStep

SpecBoot == Init /\ [][NextBoot]_vars

(* The catalogue: resources added with tags and links, listed and deleted *)
AddTaggedResourceStep ==
    /\ resSeq < MaxRid
    /\ \E t \in TitleInputs, ty \in TypeInputs, c \in CourseInputs,
          tg \in TagsInputs, l \in LinkInputs : admin_add_resource(t, ty, c, tg, l)
ListResourcesStep == \E c \in CourseInputs : list_resources(c)

NextCatalog ==
    \/ AddTaggedResourceStep
    \/ ListResourcesStep
    \/ DeleteResourceStep

SpecCatalog == Init /\ [][NextCatalog]_vars

----------------------------------------------------------------------------
(* Properties *)

SamePair(x, y) == x.resource_id = y.resource_id /\ x.email = y.email
RateDone(r) == r.op = "rate" /\ r.status = 200
RateOf(r, rt) == RateDone(r) /\ r.rid = rt.resource_id /\ r.email = rt.email

(* C1: the ratings table holds one row per (resource_id, email) pair ever
   rated, a row never disappears and changes only by a rate call for its pair,
   after which it carries that call's rating; the average and vote count a
   rate call returns count each email of the resource once, with its latest
   rating. *)
C1_Step ==
    /\ \A x, y \in ratings' : SamePair(x, y) => x = y
    /\ \A rt \in ratings : \E n \in ratings' :
          SamePair(n, rt) /\ (n.rating = rt.rating \/ RateOf(resp', rt))
    /\ \A n \in ratings' : n \in ratings \/ (RateOf(resp', n) /\ n.rating = resp'.rating)
    /\ RateDone(resp') =>
          LET rows == { rt \in ratings' : rt.resource_id = resp'.rid }
              emails == { rt.email : rt \in rows }
          IN /\ \E rt \in rows : rt.email = resp'.email /\ rt.rating = resp'.rating
             /\ resp'.votes = Cardinality(emails)
             /\ Cardinality(rows) = Cardinality(emails)
             /\ 2 * (100 * SumRatings(rows) - resp'.votes * resp'.avg_rating) <= resp'.votes
             /\ 2 * (resp'.votes * resp'.avg_rating - 100 * SumRatings(rows)) <= resp'.votes

C1_RateKeepsOneLatestRowPerPair == [][C1_Step]_vars

(* the sole rater of a resource re-rates it from 4 to 2: average 2.00, 1 vote *)
C1_Witness ==
    /\ RateDone(resp)
    /\ resp.prior = 4 /\ resp.rating = 2
    /\ resp.avg_rating = 200 /\ resp.votes = 1

(* C2 (as claimed): the average and votes a rate call returns are those of the
   resource's rows right after the call's own upsert. *)
C2_ReadSeesOwnWrite ==
    \A w \in Workers : ratePc[w] = "done" => rateResp[w] = rateSnap[w]

(* C3: a run of init_tables leaves exactly one admin row, seeds only when the
   admins table is empty, and loses or duplicates no row of any table. *)
C3_Step ==
    /\ Cardinality(admins') <= 1
    /\ resp'.op = "init_tables" =>
          /\ Cardinality(admins') = 1
          /\ resp'.seeded <=> (admins = {})
          /\ admins # {} => admins' = admins
          /\ admins \subseteq admins'
          /\ users' = users /\ logs' = logs
          /\ resources' = resources /\ ratings' = ratings /\ notes' = notes

C3_BootstrapSeedsOnce == [][C3_Step]_vars

(* init_tables re-run over a populated store *)
C3_Witness ==
    /\ resp.op = "init_tables" /\ ~resp.seeded
    /\ Cardinality(admins) = 1
    /\ users # {} /\ logs # {} /\ ratings # {}

(* C4 (as claimed): concurrent runs of init_tables never double-seed and none
   of them ends in an error. *)
C4_BootsConverge ==
    /\ Cardinality(admins) <= 1
    /\ \A p \in Boots : bootPc[p] # "error"

(* C5: topRated returns only existing resources that have a rating, at most
   20 of them, each with the average and vote count of its current ratings,
   average non-increasing and, for equal averages, votes non-increasing. *)
C5_TopRatedOrdered ==
    resp.op = "topRated" =>
        LET rows == resp.rows
        IN /\ Len(rows) <= 20
           /\ \A i \in 1..Len(rows) :
                 LET cur == { rt \in ratings : rt.resource_id = rows[i].id }
                 IN /\ \E r \in resources : r.id = rows[i].id
                    /\ cur # {}
                    /\ rows[i].votes = Cardinality(cur)
                    /\ 2 * (100 * SumRatings(cur) - rows[i].votes * rows[i].avg_rating)
                          <= rows[i].votes
                    /\ 2 * (rows[i].votes * rows[i].avg_rating - 100 * SumRatings(cur))
                          <= rows[i].votes
           /\ \A i, j \in 1..Len(rows) :
                 i < j => /\ rows[i].avg_rating >= rows[j].avg_rating
                          /\ rows[i].avg_rating = rows[j].avg_rating
                                => rows[i].votes >= rows[j].votes

(* more than 20 resources are rated, 20 are returned, a higher average with
   fewer votes ranks before a lower one with more, an equal average with more
   votes ranks first, and a rated resource that no longer exists is left out *)
C5_Witness ==
    /\ resp.op = "topRated"
    /\ Len(resp.rows) = 20
    /\ Cardinality({ r \in resources : \E rt \in ratings : rt.resource_id = r.id }) > 20
    /\ \E i, j \in 1..Len(resp.rows) :
          /\ i < j
          /\ resp.rows[i].avg_rating > resp.rows[j].avg_rating
          /\ resp.rows[i].votes < resp.rows[j].votes
    /\ \E i, j \in 1..Len(resp.rows) :
          /\ i < j
          /\ resp.rows[i].avg_rating = resp.rows[j].avg_rating
          /\ resp.rows[i].votes > resp.rows[j].votes
    /\ \E rt \in ratings : \A r \in resources : r.id # rt.resource_id

(* C6 (as claimed): deleteNote on a note owned by another email reports
   success. *)
C6_ForeignDeleteReportsSuccess ==
    (/\ resp.op = "deleteNote" /\ resp.status = 200
     /\ \E n \in notes : n.id = resp.note_id /\ n.email # resp.email)
        => resp.ok

(* C6 (amended): deleteNote with a non-empty email removes exactly the note
   whose id and email both match, changes nothing else, and returns ok true
   iff a row was removed; with an empty email it is rejected and changes
   nothing. *)
C6_Step ==
    resp'.op = "deleteNote" =>
        /\ resources' = resources /\ ratings' = ratings
        /\ users' = users /\ admins' = admins /\ logs' = logs
        /\ IF resp'.status = 200
           THEN /\ resp'.email # <<>>
                /\ notes' = { n \in notes :
                                ~(n.id = resp'.note_id /\ n.email = resp'.email) }
                /\ resp'.ok <=> (notes' # notes)
           ELSE /\ resp'.status = 400
                /\ notes' = notes

C6_DeleteNoteOwnerOnly == [][C6_Step]_vars

(* a delete by another email left the note in place and returned ok false *)
C6_Witness ==
    /\ resp.op = "deleteNote" /\ resp.status = 200
    /\ ~resp.ok
    /\ \E n \in notes : n.id = resp.note_id /\ n.email # resp.email

(* C7: deleteResource returns ok true whether or not the row exists, removes
   at most the resource row of that id and leaves every other row, the
   ratings and notes of the deleted id included. *)
C7_Step ==
    resp'.op = "deleteResource" =>
        /\ resp'.status = 200 /\ resp'.ok
        /\ resources' = { r \in resources : r.id # resp'.rid }
        /\ Cardinality(resources \ resources') <= 1
        /\ ratings' = ratings /\ notes' = notes
        /\ users' = users /\ admins' = admins /\ logs' = logs

C7_DeleteResourceOnlyThatRow == [][C7_Step]_vars

(* a resource was deleted, its rating and its note remain, another resource
   is still there *)
C7_Witness ==
    /\ resp.op = "deleteResource"
    /\ \A r \in resources : r.id # resp.rid
    /\ resp.rid <= resSeq
    /\ \E rt \in ratings : rt.resource_id = resp.rid
    /\ \E n \in notes : n.resource_id = resp.rid
    /\ resources # {}

(* C8 (as claimed): every ratings row has resource_id > 0, a non-empty email
   and a rating in 1..5. *)
C8_RatingRowsValid ==
    \A rt \in ratings :
        /\ rt.resource_id > 0
        /\ rt.email # <<>>
        /\ rt.rating >= 1 /\ rt.rating <= 5

(* C9 (as claimed): no users row has an empty email, name, enrollment_no,
   course or semester. *)
C9_UserRowsComplete ==
    \A u \in users :
        /\ u.email # <<>> /\ u.name # <<>> /\ u.enrollment_no # <<>>
        /\ u.course # <<>> /\ u.semester # <<>>

(* C10: users holds one row per email compared without case; a successful
   linkEnrollment leaves for its email the single row made of the call's
   trimmed values, role Student, nothing kept of the row it replaces, and
   leaves the rows of other emails alone; no other request changes a row
   except for last_seen. *)
LinkDone(r) == r.op = "linkEnrollment" /\ r.status = 200

C10_Step ==
    /\ \A u, v \in users' : Lower(u.email) = Lower(v.email) => u = v
    /\ LinkDone(resp') =>
          /\ \E u \in users' :
                /\ u.email = Lower(Strip(resp'.email))
                /\ u.name = Strip(resp'.name)
                /\ u.enrollment_no = Strip(resp'.enrollment_no)
                /\ u.course = Strip(resp'.course)
                /\ u.semester = Strip(resp'.semester)
                /\ u.mobile = Strip(resp'.mobile)
                /\ u.role = "Student"
                /\ u.last_seen = "NULL"
                /\ u \notin users
          /\ \A u \in users : Lower(u.email) # Lower(Strip(resp'.email)) => u \in users'
          /\ Cardinality(users') = Cardinality(users) + (IF resp'.prior = {} THEN 1 ELSE 0)
    /\ ~LinkDone(resp') =>
          /\ Cardinality(users') = Cardinality(users)
          /\ \A u \in users : \E v \in users' : [v EXCEPT !.last_seen = u.last_seen] = u

C10_LinkReplacesRow == [][C10_Step]_vars

(* a row with a mobile and a last_seen is replaced, under an email in another
   letter case, by a call without mobile; a second user is untouched *)
C10_Witness ==
    /\ LinkDone(resp)
    /\ resp.email = <<"A", " ">>
    /\ resp.mobile = <<>>
    /\ \E o \in resp.prior : /\ o.mobile # <<>> /\ o.last_seen = "now"
                             /\ o.name # Strip(resp.name)
    /\ Cardinality(users) = 2

AddDone(r) == r.op = "addResource" /\ r.status = 200
AddedRow == CHOOSE r \in resources : r.id = resp.id

(* C11 (as claimed): a link in either relative upload form, "/uploads/<name>"
   or "uploads/<name>", is stored as the origin followed by "/uploads/<name>",
   any other link is stored unchanged, and canonicalizing the stored link
   again changes nothing. *)
C11_LinkCanonical ==
    AddDone(resp) =>
        LET l == Strip(resp.linkIn)
            name == IF StartsWith(l, UploadsRoute)
                    THEN SubSeq(l, Len(UploadsRoute) + 1, Len(l))
                    ELSE SubSeq(l, Len(UploadsRel) + 1, Len(l))
        IN /\ (StartsWith(l, UploadsRoute) \/ StartsWith(l, UploadsRel))
                 => AddedRow.link = Origin \o UploadsRoute \o name
           /\ ~(StartsWith(l, UploadsRoute) \/ StartsWith(l, UploadsRel))
                 => AddedRow.link = l
           /\ CanonicalLink(AddedRow.link) = AddedRow.link

(* C12 (as claimed): the stored tags are the comma-join of the trimmed,
   non-empty tags in input order, for a comma string and for a list alike;
   normalizing the stored string again gives the same string, and
   list_resources explodes it into the same list of tags. *)
C12_TagsRoundTrip ==
    AddDone(resp) =>
        LET given == IF resp.tagsIn.kind = "list" THEN resp.tagsIn.val
                     ELSE Split(resp.tagsIn.val, Comma)
            want == StripNonEmpty(given)
        IN /\ AddedRow.tags = Join(want, Comma)
           /\ NormalizeTags([kind |-> "str", val |-> AddedRow.tags]) = AddedRow.tags
           /\ ExplodeTags(AddedRow.tags) = want
====
